---- MODULE Spec2Model ----
(***************************************************************************)
(* Deferred deep-link store and claim resolver of universal-links-server.  *)
(*                                                                         *)
(* State: the deferred_links table, the clock, and a record of the last    *)
(* service call (its arguments and what it returned).                      *)
(*                                                                         *)
(* Time is counted in ticks; a calendar day (UTC) has DayLen ticks.  The   *)
(* code keeps timestamps as TEXT in two formats and compares them as text: *)
(*   datetime('now')          'YYYY-MM-DD HH:MM:SS'       (SQLite)         *)
(*   Date.toISOString()       'YYYY-MM-DDTHH:MM:SS.sssZ'  (JavaScript)     *)
(* A timestamp text is modelled as <<date, separator, time of day>> with   *)
(* the separator ' ' (0x20) as 0 and 'T' (0x54) as 1, compared             *)
(* lexicographically as SQLite's BINARY collation compares the strings.    *)
(***************************************************************************)
EXTENDS Integers, Sequences, FiniteSets, TLC

VARIABLES
    links,      \* rows of table deferred_links (a set of records)
    now,        \* the clock, in ticks
    nextId,     \* number of rows ever inserted + 1 (the next fresh id)
    last,       \* the last service call: [op, ret]
    claims,     \* history: id -> number of successful claim calls that returned the row
    pc,         \* concurrent claimByToken calls: position of each call
    ptoken,     \* concurrent claimByToken calls: the token argument
    plink,      \* concurrent claimByToken calls: id of the row the SELECT returned
    pret,       \* concurrent claimByToken calls: id of the row returned (NoLink: null)
    sStored,    \* calculateSignalScore: argument stored
    sClaimed,   \* calculateSignalScore: argument claimed
    sScore,     \* calculateSignalScore: the returned score (NoScore: not called yet)
    referrals,  \* rows of table referrals (a set of records)
    nextRef,    \* number of referrals ever inserted + 1 (the next fresh id)
    resp,       \* the last HTTP response of the API routes
    issued,     \* history: (app, referrer) -> code createReferral last returned for the
                \* pair, while the referral with that code is still pending
    apiKey,     \* config.apiKey (NullStr: no key configured)
    cleanupKey, \* process.env.CLEANUP_KEY (NullStr: not set)
    job         \* startCleanupJob: "start" before its initial cleanup, "timer" after

vars == <<links, now, nextId, last, claims, pc, ptoken, plink, pret, sStored, sClaimed, sScore,
          referrals, nextRef, resp, issued, apiKey, cleanupKey, job>>
storeVars == <<links, now, nextId, last, claims>>
concVars == <<pc, ptoken, plink, pret>>
scoreVars == <<sStored, sClaimed, sScore>>
envVars == <<cleanupKey, job>>
refVars == <<referrals, nextRef, resp, issued, apiKey, envVars>>

---------------------------------------------------------------------------
(* Bounds *)

MaxStores == 2              \* rows ever inserted
MaxTime == 3                \* the clock stops here
NProcs == 2                 \* concurrent claimByToken calls
MaxRefs == 2                \* referrals ever inserted
MaxApiLinks == 1            \* rows the landing pages insert, in the histories of requests
MaxApiRefs == 1             \* referrals inserted in the histories with landing pages
MaxApiTime == 1             \* the clock stops here in the histories of requests
MaxSweepStoreTime == 1      \* no store after this tick, in the histories of the sweeper

(* Program constants (time constants scaled to ticks) *)

TTL == 2                    \* config.deferredLinkTTL: 24 hours, in ticks
DayLen == TTL               \* ticks per calendar day (UTC): the TTL is one day
MsPerMinute == 2            \* 60000 in the code; a tick is one "minute" of the window arithmetic
DefaultWindowMs == 2        \* 7200000 in the code
DefaultMinScore == 2
ScreenTolerance == 50

(* Values *)

NullStr == "<null>"         \* SQL NULL / JS undefined, for TEXT columns
NullNum == -1               \* SQL NULL / JS undefined, for INTEGER columns
NoLink == 0                 \* "no row": null returned by a claim
NoScore == NullNum           \* calculateSignalScore not called yet

Apps == {"A", "B"}
Tokens == {"t1", "t2"}      \* what nanoid(16) can return
Fingerprints == {"f1", "f2"}

---------------------------------------------------------------------------
(* Timestamps as text *)

\* SQLite datetime('now') at clock t: 'YYYY-MM-DD HH:MM:SS'
SqliteDatetime(t) == <<t \div DayLen, 0, t % DayLen>>

\* new Date(t).toISOString(): 'YYYY-MM-DDTHH:MM:SS.sssZ'
ToISOString(t) == <<t \div DayLen, 1, t % DayLen>>

\* The instant a timestamp text denotes
InstantOf(text) == text[1] * DayLen + text[3]

\* a < b for TEXT values under BINARY collation (memcmp)
TextLess(a, b) ==
    \/ a[1] < b[1]
    \/ a[1] = b[1] /\ a[2] < b[2]
    \/ a[1] = b[1] /\ a[2] = b[2] /\ a[3] < b[3]

---------------------------------------------------------------------------
(* JavaScript truthiness and SQL helpers *)

TruthyStr(s) == s # NullStr /\ s # ""
TruthyNum(n) == n # NullNum /\ n # 0

\* x || null
StrOrNull(s) == IF TruthyStr(s) THEN s ELSE NullStr
NumOrNull(n) == IF TruthyNum(n) THEN n ELSE NullNum

\* COALESCE with its arguments swapped: the column's value wins when it has one
CoalesceStr_ColumnFirst(supplied, column) == IF column # NullStr THEN column ELSE supplied

\* COALESCE(supplied, column)
CoalesceStr(supplied, column) == IF supplied # NullStr THEN supplied ELSE column
CoalesceNum(supplied, column) == IF supplied # NullNum THEN supplied ELSE column

Abs(n) == IF n < 0 THEN -n ELSE n

LinkById(id) == CHOOSE l \in links : l.id = id

---------------------------------------------------------------------------
(* Signal model: services/fingerprint.ts *)

Signals(tz, lang, w, h) ==
    [timezone |-> tz, language |-> lang, screen_width |-> w, screen_height |-> h]

NoSignals == Signals(NullStr, NullStr, NullNum, NullNum)

\* calculateSignalScore with the fuzzy comparison made strict (< instead of <=)
calculateSignalScore_StrictTolerance(stored, claimed, screenTolerance) ==
    (IF TruthyStr(stored.timezone) /\ TruthyStr(claimed.timezone)
        /\ stored.timezone = claimed.timezone THEN 1 ELSE 0)
  + (IF TruthyStr(stored.language) /\ TruthyStr(claimed.language)
        /\ stored.language = claimed.language THEN 1 ELSE 0)
  + (IF TruthyNum(stored.screen_width) /\ TruthyNum(claimed.screen_width)
        /\ Abs(stored.screen_width - claimed.screen_width) < screenTolerance THEN 1 ELSE 0)
  + (IF TruthyNum(stored.screen_height) /\ TruthyNum(claimed.screen_height)
        /\ Abs(stored.screen_height - claimed.screen_height) < screenTolerance THEN 1 ELSE 0)

calculateSignalScore(stored, claimed, screenTolerance) ==
    (IF TruthyStr(stored.timezone) /\ TruthyStr(claimed.timezone)
        /\ stored.timezone = claimed.timezone THEN 1 ELSE 0)
  + (IF TruthyStr(stored.language) /\ TruthyStr(claimed.language)
        /\ stored.language = claimed.language THEN 1 ELSE 0)
  + (IF TruthyNum(stored.screen_width) /\ TruthyNum(claimed.screen_width)
        /\ Abs(stored.screen_width - claimed.screen_width) <= screenTolerance THEN 1 ELSE 0)
  + (IF TruthyNum(stored.screen_height) /\ TruthyNum(claimed.screen_height)
        /\ Abs(stored.screen_height - claimed.screen_height) <= screenTolerance THEN 1 ELSE 0)

---------------------------------------------------------------------------
(* Link store: services/deferred.ts *)

\* The row storeDeferredLink inserts
NewLink(id, appId, fingerprint, deepLinkPath, referrerToken, ip, t) ==
    [ id             |-> id,
      app_id         |-> appId,
      fingerprint    |-> fingerprint,
      deep_link_path |-> deepLinkPath,
      referrer_token |-> referrerToken,
      created_at     |-> SqliteDatetime(t),
      expires_at     |-> ToISOString(t + TTL),
      claimed        |-> 0,
      ip             |-> StrOrNull(ip),
      timezone       |-> NullStr,
      language       |-> NullStr,
      screen_width   |-> NullNum,
      screen_height  |-> NullNum ]

\* expires_at > datetime('now'), a comparison of TEXT values
NotExpiredSql(l, t) == TextLess(SqliteDatetime(t), l.expires_at)

\* expires_at < datetime('now'), a comparison of TEXT values
ExpiredSql(l, t) == TextLess(l.expires_at, SqliteDatetime(t))

\* WHERE clause of claimByToken's SELECT
TokenWhere(l, token, t) ==
    /\ l.referrer_token = token
    /\ l.claimed = 0
    /\ NotExpiredSql(l, t)

\* WHERE clause of claimByFingerprint's SELECT, without "claimed = 0"
FingerprintWhere_IgnoresClaimed(l, fingerprint, appId, t) ==
    /\ l.fingerprint = fingerprint
    /\ l.app_id = appId
    /\ NotExpiredSql(l, t)

\* WHERE clause of claimByFingerprint's SELECT, without "app_id = ?"
FingerprintWhere_AnyApp(l, fingerprint, appId, t) ==
    /\ l.fingerprint = fingerprint
    /\ l.claimed = 0
    /\ NotExpiredSql(l, t)

\* WHERE clause of claimByFingerprint's SELECT
FingerprintWhere(l, fingerprint, appId, t) ==
    /\ l.fingerprint = fingerprint
    /\ l.app_id = appId
    /\ l.claimed = 0
    /\ NotExpiredSql(l, t)

\* windowMs and windowMinutes of claimBySignals (config has no deferredMatchWindow)
WindowMinutes(matchWindowMs) ==
    LET windowMs == IF TruthyNum(matchWindowMs) THEN matchWindowMs ELSE DefaultWindowMs
    IN  windowMs \div MsPerMinute

\* WHERE clause of claimBySignals' SELECT, without "claimed = 0"
SignalsWhere_IgnoresClaimed(l, ip, appId, windowMinutes, t) ==
    /\ l.ip # NullStr /\ l.ip = ip
    /\ l.app_id = appId
    /\ NotExpiredSql(l, t)
    /\ TextLess(SqliteDatetime(t - windowMinutes), l.created_at)

\* WHERE clause of claimBySignals' SELECT (a NULL ip column compares equal to nothing)
SignalsWhere(l, ip, appId, windowMinutes, t) ==
    /\ l.ip # NullStr /\ l.ip = ip
    /\ l.app_id = appId
    /\ l.claimed = 0
    /\ NotExpiredSql(l, t)
    /\ TextLess(SqliteDatetime(t - windowMinutes), l.created_at)

\* ORDER BY created_at DESC: every order of the rows SQLite may return
\* (rows with equal created_at come in no specified order)
OrderByCreatedDesc(rows) ==
    { s \in [1..Cardinality(rows) -> rows] :
        /\ \A i, j \in 1..Cardinality(rows) : i # j => s[i] # s[j]
        /\ \A i, j \in 1..Cardinality(rows) :
              i < j => ~TextLess(s[i].created_at, s[j].created_at) }

\* storedSignals of claimBySignals' loop
StoredSignals(l) ==
    Signals(StrOrNull(l.timezone), StrOrNull(l.language),
            NumOrNull(l.screen_width), NumOrNull(l.screen_height))

MinScoreOf(minScore) == IF minScore = NullNum THEN DefaultMinScore ELSE minScore

\* The scoring loop with "score >= bestScore": a later candidate wins a tie
RECURSIVE BestMatch_LaterWinsTie(_, _, _, _, _, _)
BestMatch_LaterWinsTie(candidates, i, signals, minScore, bestMatch, bestScore) ==
    IF i > Len(candidates) THEN bestMatch
    ELSE LET link == candidates[i]
             score == calculateSignalScore(StoredSignals(link), signals, ScreenTolerance)
         IN  IF score >= minScore /\ score >= bestScore
             THEN BestMatch_LaterWinsTie(candidates, i + 1, signals, minScore, link.id, score)
             ELSE BestMatch_LaterWinsTie(candidates, i + 1, signals, minScore, bestMatch, bestScore)

\* The scoring loop of claimBySignals from candidate i on; the id of bestMatch
RECURSIVE BestMatch(_, _, _, _, _, _)
BestMatch(candidates, i, signals, minScore, bestMatch, bestScore) ==
    IF i > Len(candidates) THEN bestMatch
    ELSE LET link == candidates[i]
             score == calculateSignalScore(StoredSignals(link), signals, ScreenTolerance)
         IN  IF score >= minScore /\ score > bestScore
             THEN BestMatch(candidates, i + 1, signals, minScore, link.id, score)
             ELSE BestMatch(candidates, i + 1, signals, minScore, bestMatch, bestScore)

\* The fallback of claimBySignals taking the oldest candidate
Fallback_Oldest(candidates) == candidates[Len(candidates)].id

\* The fallback of claimBySignals: candidates[0], the most recent candidate
Fallback(candidates) == candidates[1].id

\* UPDATE deferred_links SET claimed = 1 for every row with the app of row id
MarkClaimed_WholeApp(rows, id) ==
    { IF \E k \in rows : k.id = id /\ k.app_id = l.app_id
      THEN [l EXCEPT !.claimed = 1] ELSE l : l \in rows }

\* UPDATE deferred_links SET claimed = 1 WHERE id = ?
MarkClaimed(rows, id) ==
    { IF l.id = id THEN [l EXCEPT !.claimed = 1] ELSE l : l \in rows }

\* WHERE clause of updateDeferredLinkSignals' UPDATE, without "claimed = 0"
PatchWhere_IgnoresClaimed(l, referrerToken) == l.referrer_token = referrerToken

\* WHERE clause of updateDeferredLinkSignals' UPDATE
PatchWhere(l, referrerToken) == l.referrer_token = referrerToken /\ l.claimed = 0

\* The SET clause of updateDeferredLinkSignals applied to one row
PatchedRow(l, signals) ==
    [l EXCEPT
       !.timezone      = CoalesceStr(StrOrNull(signals.timezone), l.timezone),
       !.language      = CoalesceStr(StrOrNull(signals.language), l.language),
       !.screen_width  = CoalesceNum(NumOrNull(signals.screen_width), l.screen_width),
       !.screen_height = CoalesceNum(NumOrNull(signals.screen_height), l.screen_height)]

\* WHERE clause of the sweep's DELETE, without "expires_at < datetime('now')"
CleanupWhere_ClaimedOnly(l, t) == l.claimed = 1

\* WHERE clause of cleanupDeferredLinks' DELETE
CleanupWhere(l, t) == ExpiredSql(l, t) \/ l.claimed = 1

---------------------------------------------------------------------------
(* Inputs *)

\* (appId, fingerprint, deepLinkPath, ip) of the storeDeferredLink calls
StoreInputs ==
    { <<"A", "f1", "/m/xyz", "1.2.2.2">>,
      <<"B", "f1", "/m/abc", "1.2.2.2">>,
      <<"A", "f2", "/m/abc", "">> }

\* signals of the updateDeferredLinkSignals calls
PatchInputs == { Signals("UTC", "", 400, 0) }

\* (ip, signals, appId, matchWindowMs, minScore) of the claimBySignals calls:
\* the defaults, a 48 hour window, minScore 3, the other app, no ip
ClaimInputs ==
    { <<"1.2.2.2", Signals("UTC", NullStr, 409, NullNum), "A", NullNum, NullNum>>,
      <<"1.2.2.2", Signals("UTC", NullStr, 409, NullNum), "A", 2 * TTL * MsPerMinute, NullNum>>,
      <<"1.2.2.2", Signals("UTC", NullStr, 409, NullNum), "A", NullNum, 3>>,
      <<"1.2.2.2", Signals("UTC", NullStr, 409, NullNum), "B", NullNum, NullNum>>,
      <<"", Signals("UTC", NullStr, 409, NullNum), "A", NullNum, NullNum>> }

Call(op, ret) == [op |-> op, ret |-> ret]

---------------------------------------------------------------------------
(* Operations of services/deferred.ts, each call one atomic step *)

\* storeDeferredLink on a table whose referrer_token column is not UNIQUE
storeDeferredLink_NoUnique(appId, fingerprint, deepLinkPath, ip, token) ==
    /\ nextId <= MaxStores
    /\ links' = links \cup
          {NewLink(nextId, appId, fingerprint, deepLinkPath, token, ip, now)}
    /\ nextId' = nextId + 1
    /\ last' = Call("store", nextId)
    /\ UNCHANGED <<now, claims, concVars, scoreVars>>

\* storeDeferredLink(appId, fingerprint, deepLinkPath, ip); nanoid(16) returns token.
\* The INSERT fails on the UNIQUE(referrer_token) constraint when the token is taken.
storeDeferredLink(appId, fingerprint, deepLinkPath, ip, token) ==
    /\ nextId <= MaxStores
    /\ IF \E l \in links : l.referrer_token = token
       THEN /\ last' = Call("store", NoLink)
            /\ UNCHANGED <<links, nextId>>
       ELSE /\ links' = links \cup
                 {NewLink(nextId, appId, fingerprint, deepLinkPath, token, ip, now)}
            /\ nextId' = nextId + 1
            /\ last' = Call("store", nextId)
    /\ UNCHANGED <<now, claims, concVars, scoreVars>>

\* updateDeferredLinkSignals(referrerToken, signals)
updateDeferredLinkSignals(referrerToken, signals) ==
    LET hit == { l \in links : PatchWhere(l, referrerToken) }
    IN  /\ links' = (links \ hit) \cup { PatchedRow(l, signals) : l \in hit }
        /\ last' = Call("patch", IF hit # {} THEN 1 ELSE 0)
        /\ UNCHANGED <<now, nextId, claims, concVars, scoreVars>>

\* A claim call returns row id (NoLink: null) and marks it claimed
Return(op, id) ==
    /\ last' = Call(op, id)
    /\ IF id = NoLink
       THEN UNCHANGED <<links, claims>>
       ELSE /\ links' = MarkClaimed(links, id)
            /\ claims' = [claims EXCEPT ![id] = @ + 1]
    /\ UNCHANGED <<now, nextId, concVars, scoreVars>>

\* claimByToken(token)
claimByToken(token) ==
    LET found == { l \in links : TokenWhere(l, token, now) }
    IN  IF found = {}
        THEN Return("claimByToken", NoLink)
        ELSE \E link \in found : Return("claimByToken", link.id)

\* claimByFingerprint(fingerprint, appId): ORDER BY created_at DESC LIMIT 1
claimByFingerprint(fingerprint, appId) ==
    LET found == { l \in links : FingerprintWhere(l, fingerprint, appId, now) }
    IN  IF found = {}
        THEN Return("claimByFingerprint", NoLink)
        ELSE \E candidates \in OrderByCreatedDesc(found) :
                Return("claimByFingerprint", candidates[1].id)

\* claimBySignals(signals, appId, matchWindowMs, minScore); signals = ip + the four fields
claimBySignals(ip, signals, appId, matchWindowMs, minScore) ==
    LET found == { l \in links :
                     SignalsWhere(l, ip, appId, WindowMinutes(matchWindowMs), now) }
    IN  IF found = {}
        THEN Return("claimBySignals", NoLink)
        ELSE \E candidates \in OrderByCreatedDesc(found) :
                LET bestMatch == BestMatch(candidates, 1, signals, MinScoreOf(minScore),
                                           NoLink, -1)
                IN  IF bestMatch # NoLink
                    THEN Return("claimBySignals", bestMatch)
                    ELSE Return("claimBySignals", Fallback(candidates))

\* cleanupDeferredLinks() and cleanupExpiredLinks(): the same DELETE
cleanupDeferredLinks ==
    LET deleted == { l \in links : CleanupWhere(l, now) }
    IN  /\ links' = links \ deleted
        /\ last' = Call("cleanup", Cardinality(deleted))
        /\ UNCHANGED <<now, nextId, claims, concVars, scoreVars>>

\* Time passes
Tick ==
    /\ now < MaxTime
    /\ now' = now + 1
    /\ last' = Call("tick", 0)
    /\ UNCHANGED <<links, nextId, claims, concVars, scoreVars>>

---------------------------------------------------------------------------
(* Table referrals (services/referrals.ts) and the configuration of the API *)

Users == {"u1", "u2"}           \* user ids the callers supply
Pairs == Apps \X Users

NullTime == <<>>                \* SQL NULL in a timestamp column

\* A row as INSERTed by createReferral, with the column defaults of the schema
NewReferral(id, appId, referrerId, referralCode, t) ==
    [ id |-> id, app_id |-> appId, referrer_id |-> referrerId,
      referral_code |-> referralCode, referred_user_id |-> NullStr,
      status |-> "pending", milestone |-> "pending",
      created_at |-> SqliteDatetime(t), completed_at |-> NullTime ]

\* The response of a route: the status and the fields of the JSON body
Response(route, status, path, referrerId, referralCode) ==
    [ route |-> route, status |-> status, path |-> path,
      referrer_id |-> referrerId, referral_code |-> referralCode ]

\* The last step was not a request
NoResponse == Response("none", 0, NullStr, NullStr, NullStr)

InitRef ==
    /\ referrals = {}
    /\ nextRef = 1
    /\ resp = NoResponse
    /\ issued = [p \in Pairs |-> NullStr]
    /\ apiKey = NullStr
    /\ cleanupKey = NullStr
    /\ job = "start"

---------------------------------------------------------------------------
(* Specification: any sequential history of service calls *)

InitConc ==
    /\ pc = [p \in 1..NProcs |-> "idle"]
    /\ ptoken = [p \in 1..NProcs |-> NullStr]
    /\ plink = [p \in 1..NProcs |-> NoLink]
    /\ pret = [p \in 1..NProcs |-> NoLink]

InitScore ==
    /\ sStored = NoSignals
    /\ sClaimed = NoSignals
    /\ sScore = NoScore

InitStore ==
    /\ links = {}
    /\ now = 0
    /\ nextId = 1
    /\ last = Call("init", 0)
    /\ claims = [id \in 1..MaxStores |-> 0]

Init == InitStore /\ InitConc /\ InitScore /\ InitRef

Next ==
    \/ \E inp \in StoreInputs, token \in Tokens :
          storeDeferredLink(inp[1], inp[2], inp[3], inp[4], token) /\ UNCHANGED refVars
    \/ \E token \in Tokens, signals \in PatchInputs :
          updateDeferredLinkSignals(token, signals) /\ UNCHANGED refVars
    \/ \E token \in Tokens : claimByToken(token) /\ UNCHANGED refVars
    \/ \E fingerprint \in Fingerprints, appId \in Apps :
          claimByFingerprint(fingerprint, appId) /\ UNCHANGED refVars
    \/ \E inp \in ClaimInputs :
          claimBySignals(inp[1], inp[2], inp[3], inp[4], inp[5]) /\ UNCHANGED refVars
    \/ cleanupDeferredLinks /\ UNCHANGED refVars
    \/ Tick /\ UNCHANGED refVars

Spec == Init /\ [][Next]_vars

---------------------------------------------------------------------------
(* Concurrent claimByToken calls.  Each db.prepare(...).get/run is one SQLite  *)
(* statement; calls on different connections interleave between statements.    *)

\* claimByToken(token), call p: the SELECT and the "if (!link) return null"
claimByToken_Select(p, token) ==
    /\ pc[p] = "idle"
    /\ ptoken' = [ptoken EXCEPT ![p] = token]
    /\ LET found == { l \in links : TokenWhere(l, token, now) }
       IN  IF found = {}
           THEN /\ pc' = [pc EXCEPT ![p] = "done"]
                /\ UNCHANGED plink
           ELSE \E link \in found :
                /\ plink' = [plink EXCEPT ![p] = link.id]
                /\ pc' = [pc EXCEPT ![p] = "selected"]
    /\ UNCHANGED <<storeVars, pret, scoreVars>>

\* claimByToken(token), call p: the UPDATE and "return link"
claimByToken_Update(p) ==
    /\ pc[p] = "selected"
    /\ links' = MarkClaimed(links, plink[p])
    /\ pret' = [pret EXCEPT ![p] = plink[p]]
    /\ pc' = [pc EXCEPT ![p] = "done"]
    /\ UNCHANGED <<now, nextId, last, claims, ptoken, plink, scoreVars>>

NextConc ==
    \/ \E inp \in StoreInputs, token \in Tokens :
          storeDeferredLink(inp[1], inp[2], inp[3], inp[4], token) /\ UNCHANGED refVars
    \/ \E p \in 1..NProcs, token \in Tokens :
          claimByToken_Select(p, token) /\ UNCHANGED refVars
    \/ \E p \in 1..NProcs : claimByToken_Update(p) /\ UNCHANGED refVars
    \/ Tick /\ UNCHANGED refVars

SpecConc == Init /\ [][NextConc]_vars

---------------------------------------------------------------------------
(* Properties of the sequential histories *)

ClaimOps == {"claimByToken", "claimByFingerprint", "claimBySignals"}

\* The instant is later than the row's expires_at
Expired(l, t) == t > InstantOf(l.expires_at)

\* C2: claimByToken(T) succeeds iff a row with referrer_token = T exists that is
\* unclaimed and unexpired, and then returns that row (whose deep_link_path the
\* endpoint answers); otherwise it returns null.
C2_TokenClaimIffClaimable ==
    [][\A token \in Tokens :
          (last'.op = "claimByToken" /\ claimByToken(token)) =>
             LET claimable == { l \in links : /\ l.referrer_token = token
                                              /\ l.claimed = 0
                                              /\ ~Expired(l, now) }
             IN  /\ last'.ret # NoLink <=> claimable # {}
                 /\ last'.ret # NoLink => \E l \in claimable : l.id = last'.ret
      ]_vars

\* C3: over any sequential history of the six operations, each row is returned
\* by at most one successful claim, whichever strategies are used.
C3_AtMostOneClaimPerRecord ==
    \A id \in DOMAIN claims : claims[id] <= 1

\* A claim call has just found nothing although the table holds a row that was
\* returned once before and is otherwise still eligible (unexpired for the query).
C3_Witness ==
    /\ last.op \in ClaimOps
    /\ last.ret = NoLink
    /\ \E l \in links : claims[l.id] = 1 /\ l.claimed = 1 /\ NotExpiredSql(l, now)

\* C5: at any instant later than its expires_at, no claim operation returns the row.
C5_NoClaimAfterExpiry ==
    (last.op \in ClaimOps /\ last.ret # NoLink) => ~Expired(LinkById(last.ret), now)

\* C4 (as stated): after a claim by fingerprint has succeeded, the next claim with
\* the same fingerprint and the same app returns not-found.
C4_SecondClaimNotFound ==
    [][(last.op = "claimByFingerprint" /\ last.ret # NoLink) =>
          LET first == LinkById(last.ret)
          IN  (last'.op = "claimByFingerprint"
                 /\ claimByFingerprint(first.fingerprint, first.app_id))
              => last'.ret = NoLink
      ]_vars

\* What a repeated claim may return after `first` was returned: never `first`
\* again, only a row that was still unclaimed, and not-found when `others`
\* (the other rows the repeated claim could match) holds no unclaimed row.
RepeatedClaimOk(first, others) ==
    /\ last'.ret # first.id
    /\ last'.ret # NoLink => \E l \in others : l.id = last'.ret /\ l.claimed = 0
    /\ (\A l \in others : l.claimed = 1) => last'.ret = NoLink

\* C4 (amended): after a successful claim by fingerprint or by signals, the next
\* claim with the same fingerprint (the same ip) and the same app never returns
\* the same row again: it returns not-found when no other unclaimed row with that
\* fingerprint (ip) and app exists, and otherwise not-found or one of those rows.
C4_SecondClaimNeverSameRecord ==
    [][(last.op \in {"claimByFingerprint", "claimBySignals"} /\ last.ret # NoLink) =>
          LET first == LinkById(last.ret)
          IN  /\ (last.op = "claimByFingerprint" /\ last'.op = "claimByFingerprint"
                    /\ claimByFingerprint(first.fingerprint, first.app_id))
                 => RepeatedClaimOk(first,
                       { l \in links : /\ l.id # first.id
                                       /\ l.fingerprint = first.fingerprint
                                       /\ l.app_id = first.app_id })
              /\ \A inp \in ClaimInputs :
                   (last.op = "claimBySignals" /\ last'.op = "claimBySignals"
                      /\ inp[1] = first.ip /\ inp[3] = first.app_id
                      /\ claimBySignals(inp[1], inp[2], inp[3], inp[4], inp[5]))
                   => RepeatedClaimOk(first,
                         { l \in links : /\ l.id # first.id
                                         /\ l.ip = first.ip
                                         /\ l.app_id = first.app_id })
      ]_vars

\* A fingerprint claim has just returned a row although a newer row with the same
\* fingerprint and app, still unexpired, had been returned by an earlier claim.
C4_Witness ==
    /\ last.op = "claimByFingerprint"
    /\ last.ret # NoLink
    /\ \E o \in links :
          /\ o.id # last.ret
          /\ o.claimed = 1 /\ claims[o.id] = 1
          /\ o.fingerprint = LinkById(last.ret).fingerprint
          /\ o.app_id = LinkById(last.ret).app_id
          /\ TextLess(LinkById(last.ret).created_at, o.created_at)
          /\ NotExpiredSql(o, now)

\* The rows claimBySignals' SELECT returns, and their scores
Candidates(inp) ==
    { l \in links : SignalsWhere(l, inp[1], inp[3], WindowMinutes(inp[4]), now) }

ScoreOf(l, inp) == calculateSignalScore(StoredSignals(l), inp[2], ScreenTolerance)

Confident(inp) == { l \in Candidates(inp) : ScoreOf(l, inp) >= MinScoreOf(inp[5]) }

\* C6: when at least one candidate scores >= minScore, the row returned and marked
\* claimed is a candidate of maximal score, and none of the candidates of that
\* score has a more recent created_at.
C6_BestScoreThenNewest ==
    [][\A inp \in ClaimInputs :
          (last'.op = "claimBySignals" /\ Confident(inp) # {}
             /\ claimBySignals(inp[1], inp[2], inp[3], inp[4], inp[5]))
          => \E r \in Confident(inp) :
                /\ last'.ret = r.id
                /\ \A l \in Candidates(inp) : ScoreOf(l, inp) <= ScoreOf(r, inp)
                /\ \A l \in Candidates(inp) :
                      ScoreOf(l, inp) = ScoreOf(r, inp) => ~TextLess(r.created_at, l.created_at)
                /\ links' = MarkClaimed(links, r.id)
      ]_vars

\* claimBySignals has just returned a row with captured signals although a newer
\* unclaimed row of the same ip and app, with no signals, was a candidate too.
C6_Witness ==
    /\ last.op = "claimBySignals"
    /\ last.ret # NoLink
    /\ LinkById(last.ret).timezone = "UTC"
    /\ \E o \in links :
          /\ o.claimed = 0 /\ o.timezone = NullStr
          /\ o.ip = LinkById(last.ret).ip
          /\ o.app_id = LinkById(last.ret).app_id
          /\ TextLess(LinkById(last.ret).created_at, o.created_at)

\* C7: when the candidate set is not empty and no candidate reaches minScore, the
\* call returns and marks claimed a candidate with the most recent created_at.
C7_FallbackMostRecent ==
    [][\A inp \in ClaimInputs :
          (last'.op = "claimBySignals" /\ Candidates(inp) # {} /\ Confident(inp) = {}
             /\ claimBySignals(inp[1], inp[2], inp[3], inp[4], inp[5]))
          => \E r \in Candidates(inp) :
                /\ last'.ret = r.id
                /\ \A l \in Candidates(inp) : ~TextLess(r.created_at, l.created_at)
                /\ links' = MarkClaimed(links, r.id)
      ]_vars

\* claimBySignals has just returned a row that has no captured signal (score 0),
\* the newer of two unclaimed rows of that ip and app.
C7_Witness ==
    /\ last.op = "claimBySignals"
    /\ last.ret # NoLink
    /\ StoredSignals(LinkById(last.ret)) = NoSignals
    /\ \E o \in links :
          /\ o.claimed = 0
          /\ o.ip = LinkById(last.ret).ip
          /\ o.app_id = LinkById(last.ret).app_id
          /\ TextLess(o.created_at, LinkById(last.ret).created_at)
          /\ ~Expired(o, now)

\* matchWindowMs as given, or the default
WindowMsOf(matchWindowMs) ==
    IF matchWindowMs = NullNum THEN DefaultWindowMs ELSE matchWindowMs

\* C8: every row claimBySignals(signals, appId, window) returns has ip = signals.ip,
\* app_id = appId, created_at within the window of now, and was unclaimed and
\* unexpired; if no such row exists the call returns not-found and changes nothing.
C8_IpHardPrerequisite ==
    [][\A inp \in ClaimInputs :
          (last'.op = "claimBySignals"
             /\ claimBySignals(inp[1], inp[2], inp[3], inp[4], inp[5])) =>
             LET eligible ==
                   { l \in links :
                       /\ l.ip # NullStr /\ l.ip = inp[1]
                       /\ l.app_id = inp[3]
                       /\ l.claimed = 0
                       /\ ~Expired(l, now)
                       /\ InstantOf(l.created_at) * MsPerMinute
                             > now * MsPerMinute - WindowMsOf(inp[4]) }
             IN  /\ last'.ret # NoLink => \E l \in eligible : l.id = last'.ret
                 /\ eligible = {} => (last'.ret = NoLink /\ links' = links)
      ]_vars

\* C11: once claimed = 1, no operation sets claimed back to 0 or changes any other
\* field of the row (it can only be deleted); updateDeferredLinkSignals on the
\* token of a claimed row, or on an unknown token, returns false and leaves the
\* whole table unchanged.
C11_ClaimedImmutable ==
    [][/\ \A l \in links : l.claimed = 1 =>
              \A m \in links' : m.id = l.id => m = l
       /\ \A token \in Tokens, signals \in PatchInputs :
             (last'.op = "patch" /\ updateDeferredLinkSignals(token, signals)
                /\ \A l \in links : l.referrer_token = token => l.claimed = 1)
             => (last'.ret = 0 /\ links' = links)
      ]_vars

\* updateDeferredLinkSignals has just returned false although every token is the
\* token of a row of the table: both rows are claimed, and neither has signals.
C11_Witness ==
    /\ last.op = "patch" /\ last.ret = 0
    /\ { l.referrer_token : l \in links } = Tokens
    /\ \A l \in links : l.claimed = 1 /\ StoredSignals(l) = NoSignals

---------------------------------------------------------------------------
(* Concurrent claims *)

\* C1: when claimByToken(T) calls run concurrently, their SELECT and UPDATE
\* statements interleaved in any order, exactly one call returns the row and the
\* others return not-found: no two finished calls have returned the same row.
C1_ExactlyOneConcurrentClaim ==
    \A p, q \in 1..NProcs :
        (p # q /\ pc[p] = "done" /\ pc[q] = "done" /\ pret[p] # NoLink)
        => pret[q] # pret[p]

---------------------------------------------------------------------------
(* calculateSignalScore as a function of its arguments *)

ScoreInputs ==
    { Signals(tz, lang, w, h) :
        tz \in {NullStr, "", "UTC", "EST"}, lang \in {NullStr, "en", "fr"},
        w \in {NullNum, 0, 400, 450, 451}, h \in {NullNum, 800, 850, 851} }

InitScoring ==
    /\ InitStore /\ InitConc /\ InitRef
    /\ sStored \in ScoreInputs
    /\ sClaimed \in ScoreInputs
    /\ sScore = NoScore

\* score = calculateSignalScore(stored, claimed)
Score ==
    /\ sScore = NoScore
    /\ sScore' = calculateSignalScore(sStored, sClaimed, ScreenTolerance)
    /\ UNCHANGED <<storeVars, concVars, sStored, sClaimed, refVars>>

SpecScore == InitScoring /\ [][Score]_vars

\* A field is present when it carries a value: not undefined or null, and not the
\* empty string or 0, which the code base treats as missing throughout.
PresentStr(s) == s # NullStr /\ s # ""
PresentNum(n) == n # NullNum /\ n # 0

\* The dimensions that match according to the scoring rules
MatchingDimensions(a, b) ==
    { d \in {"timezone", "language", "screen_width", "screen_height"} :
        IF d \in {"timezone", "language"}
        THEN PresentStr(a[d]) /\ PresentStr(b[d]) /\ a[d] = b[d]
        ELSE /\ PresentNum(a[d]) /\ PresentNum(b[d])
             /\ a[d] - b[d] <= ScreenTolerance /\ b[d] - a[d] <= ScreenTolerance }

\* C9: calculateSignalScore(stored, claimed) is the number of the four dimensions
\* that match (strings present and equal; screen sizes present and at most the
\* tolerance apart, inclusive); so it lies in 0..4 and is symmetric.
C9_ScoreCountsMatches ==
    sScore # NoScore =>
        /\ sScore = Cardinality(MatchingDimensions(sStored, sClaimed))
        /\ sScore \in 0..4
        /\ sScore = calculateSignalScore(sClaimed, sStored, ScreenTolerance)

\* The widths are exactly the tolerance apart (+1), the heights one more (0)
C9_Witness ==
    /\ sScore = 1
    /\ PresentNum(sStored.screen_width) /\ PresentNum(sClaimed.screen_width)
    /\ Abs(sStored.screen_width - sClaimed.screen_width) = ScreenTolerance
    /\ PresentNum(sStored.screen_height) /\ PresentNum(sClaimed.screen_height)
    /\ Abs(sStored.screen_height - sClaimed.screen_height) = ScreenTolerance + 1

---------------------------------------------------------------------------
(* Signal capture: updateDeferredLinkSignals with values for all four fields *)

CaptureInputs ==
    { Signals("UTC", "en", 400, 800),
      Signals("EST", "", 460, 0),
      Signals(NullStr, NullStr, NullNum, NullNum) }

NextCapture ==
    \/ \E token \in Tokens :
          storeDeferredLink("A", "f1", "/m/xyz", "1.2.2.2", token) /\ UNCHANGED refVars
    \/ \E token \in Tokens, signals \in CaptureInputs :
          updateDeferredLinkSignals(token, signals) /\ UNCHANGED refVars
    \/ \E token \in Tokens : claimByToken(token) /\ UNCHANGED refVars

SpecCapture == Init /\ [][NextCapture]_vars

SignalFields == {"timezone", "language", "screen_width", "screen_height"}

\* Field f of record r (a row, or the supplied values) is null
IsNull(r, f) ==
    IF f \in {"timezone", "language"} THEN r[f] = NullStr ELSE r[f] = NullNum

\* The values the call supplies: null when absent, empty or 0
Supplied(signals) ==
    Signals(StrOrNull(signals.timezone), StrOrNull(signals.language),
            NumOrNull(signals.screen_width), NumOrNull(signals.screen_height))

\* C10 (as stated): a field of the row that is non-null before the call has the
\* same value after the call, whatever value the call supplies.
C10_NeverOverwrites ==
    [][\A token \in Tokens, signals \in CaptureInputs :
          (last'.op = "patch" /\ updateDeferredLinkSignals(token, signals)) =>
             \A l \in links : \A m \in links' :
                 m.id = l.id => \A f \in SignalFields : ~IsNull(l, f) => m[f] = l[f]
      ]_vars

\* C10 (amended): on the unclaimed row with the token, each of the four fields
\* takes the supplied value when one is supplied (a non-empty string, a non-zero
\* number), whether or not the field was set before, and keeps its value when the
\* supplied value is null, absent, empty or 0: a supplied null never clears a
\* field.  Nothing else of the row, and no other row, changes.
C10_SuppliedValueWinsNullKeeps ==
    [][\A token \in Tokens, signals \in CaptureInputs :
          (last'.op = "patch" /\ updateDeferredLinkSignals(token, signals)) =>
             /\ { m.id : m \in links' } = { l.id : l \in links }
             /\ \A l \in links : \A m \in links' :
                  m.id = l.id =>
                     IF l.referrer_token = token /\ l.claimed = 0
                     THEN /\ \A f \in SignalFields :
                               m[f] = IF IsNull(Supplied(signals), f)
                                      THEN l[f] ELSE Supplied(signals)[f]
                          /\ \A f \in (DOMAIN l) \ SignalFields : m[f] = l[f]
                     ELSE m = l
      ]_vars

\* A capture has just run on a row whose timezone "UTC" and width 400, captured
\* together with language "en", were replaced by "EST" and 460, while the empty
\* language and the height 0 of that call left "en" and 800 in place.
C10_Witness ==
    /\ last.op = "patch" /\ last.ret = 1
    /\ \E l \in links :
          /\ l.timezone = "EST" /\ l.screen_width = 460
          /\ l.language = "en" /\ l.screen_height = 800

---------------------------------------------------------------------------
(* Strings the code takes apart: referral codes, Authorization headers *)

\* The characters of the strings that occur in the model
Chars(s) ==
    CASE s = "AB1" -> <<"A", "B", "1">>
      [] s = "X_7" -> <<"X", "_", "7">>
      [] s = "Q-2" -> <<"Q", "-", "2">>
      [] s = "ZZ9" -> <<"Z", "Z", "9">>
      [] s = "k1" -> <<"k", "1">>
      [] s = "k2" -> <<"k", "2">>
      [] s = "Bearer " -> <<"B", "e", "a", "r", "e", "r", " ">>
      [] s = "Bearer k1" -> <<"B", "e", "a", "r", "e", "r", " ", "k", "1">>
      [] s = "Bearer k2" -> <<"B", "e", "a", "r", "e", "r", " ", "k", "2">>
      [] s = "bearer k1" -> <<"b", "e", "a", "r", "e", "r", " ", "k", "1">>
      [] s = "Basic k1" -> <<"B", "a", "s", "i", "c", " ", "k", "1">>
      [] OTHER -> <<>>

\* The character class [A-Z0-9] under the flag i
AlnumChars ==
    { "A", "B", "C", "D", "E", "F", "G", "H", "I", "J", "K", "L", "M",
      "N", "O", "P", "Q", "R", "S", "T", "U", "V", "W", "X", "Y", "Z",
      "a", "b", "c", "d", "e", "f", "g", "h", "i", "j", "k", "l", "m",
      "n", "o", "p", "q", "r", "s", "t", "u", "v", "w", "x", "y", "z",
      "0", "1", "2", "3", "4", "5", "6", "7", "8", "9" }

\* What nanoid(10).toUpperCase() can return (shortened to three characters):
\* nanoid's alphabet is A-Z a-z 0-9 _ -
NanoidCodes == {"AB1", "X_7", "Q-2"}

\* A code no referral was created with
UnknownCode == "ZZ9"

AllCodes == NanoidCodes \cup {UnknownCode}

\* `/referral/${code}`
ReferralPath(code) == "/referral/" \o code

\* link.deep_link_path.match(/^\/referral\/([A-Z0-9]+)$/i): the group, or NullStr
ReferralMatch(path) ==
    IF \E c \in AllCodes :
          /\ path = ReferralPath(c)
          /\ Len(Chars(c)) >= 1
          /\ \A i \in 1..Len(Chars(c)) : Chars(c)[i] \in AlnumChars
    THEN CHOOSE c \in AllCodes : path = ReferralPath(c)
    ELSE NullStr

---------------------------------------------------------------------------
(* Operations of services/referrals.ts, each call one atomic step *)

DefaultDaysOld == 30

\* The exception of a failed INSERT, as a return value
Threw == NullNum

\* WHERE clause of createReferral's SELECT, without the status
ExistingWhere_AnyStatus(r, appId, referrerId) ==
    r.app_id = appId /\ r.referrer_id = referrerId

\* WHERE clause of createReferral's SELECT
ExistingWhere(r, appId, referrerId) ==
    r.app_id = appId /\ r.referrer_id = referrerId /\ r.status = "pending"

\* ORDER BY created_at DESC LIMIT 1: a row of the latest created_at
Newest(rows) ==
    { r \in rows : \A o \in rows : ~TextLess(r.created_at, o.created_at) }

\* The history `issued` after the table became rows
IssuedAfter(rows) ==
    [p \in Pairs |->
        IF issued[p] # NullStr
           /\ \E r \in rows : r.referral_code = issued[p] /\ r.status = "pending"
        THEN issued[p] ELSE NullStr]

\* createReferral(appId, referrerId); nanoid(10).toUpperCase() returns code.  The
\* INSERT fails on the UNIQUE(referral_code) constraint when the code is taken.
createReferral(appId, referrerId, code) ==
    LET existing == { r \in referrals : ExistingWhere(r, appId, referrerId) }
    IN  IF existing # {}
        THEN \E e \in Newest(existing) :
                /\ last' = Call("createReferral", e.id)
                /\ issued' = [issued EXCEPT ![<<appId, referrerId>>] = e.referral_code]
                /\ UNCHANGED <<referrals, nextRef>>
        ELSE IF \E r \in referrals : r.referral_code = code
        THEN /\ last' = Call("createReferral", Threw)
             /\ UNCHANGED <<referrals, nextRef, issued>>
        ELSE /\ nextRef <= MaxRefs
             /\ referrals' = referrals \cup
                   {NewReferral(nextRef, appId, referrerId, code, now)}
             /\ nextRef' = nextRef + 1
             /\ last' = Call("createReferral", nextRef)
             /\ issued' = [issued EXCEPT ![<<appId, referrerId>>] = code]

\* getReferralByCode(code): the rows with the code (none or one)
getReferralByCode(code) == { r \in referrals : r.referral_code = code }

\* getReferrerIdByCode(code): referral?.referrer_id || null
getReferrerIdByCode(code) ==
    IF getReferralByCode(code) = {}
    THEN NullStr
    ELSE StrOrNull((CHOOSE r \in getReferralByCode(code) : TRUE).referrer_id)

\* WHERE clause of updateMilestone's SELECT, without the status
MilestoneWhere_AnyStatus(r, referralCode) == r.referral_code = referralCode

\* WHERE clause of updateMilestone's SELECT, restricted to pending referrals
MilestoneWhere_PendingOnly(r, referralCode) ==
    r.referral_code = referralCode /\ r.status = "pending"

\* WHERE clause of updateMilestone's SELECT
MilestoneWhere(r, referralCode) ==
    r.referral_code = referralCode /\ r.status # "expired"

\* The table after updateMilestone(referralCode, milestone)
MilestoneUpdated(rows, referralCode, milestone) ==
    { IF MilestoneWhere(r, referralCode) THEN [r EXCEPT !.milestone = milestone] ELSE r
        : r \in rows }

\* The id of the row a SELECT ... .get() found (NoLink: undefined)
FoundId(hit) == IF hit = {} THEN NoLink ELSE (CHOOSE r \in hit : TRUE).id

\* updateMilestone(referralCode, milestone)
updateMilestone(referralCode, milestone) ==
    /\ referrals' = MilestoneUpdated(referrals, referralCode, milestone)
    /\ last' = Call("updateMilestone",
                    FoundId({ r \in referrals : MilestoneWhere(r, referralCode) }))
    /\ UNCHANGED <<nextRef, issued>>

\* WHERE clause of completeReferral's SELECT, without the status
CompleteWhere_AnyStatus(r, referralCode) == r.referral_code = referralCode

\* WHERE clause of completeReferral's SELECT
CompleteWhere(r, referralCode) ==
    r.referral_code = referralCode /\ r.status = "pending"

\* completeReferral(referralCode, referredUserId, milestone = 'completed')
completeReferral(referralCode, referredUserId, milestone) ==
    LET hit == { r \in referrals : CompleteWhere(r, referralCode) }
        final == IF milestone = NullStr THEN "completed" ELSE milestone
    IN  /\ referrals' = (referrals \ hit) \cup
              { [r EXCEPT !.referred_user_id = referredUserId,
                          !.status = "completed",
                          !.milestone = final,
                          !.completed_at = SqliteDatetime(now)] : r \in hit }
        /\ last' = Call("completeReferral", FoundId(hit))
        /\ issued' = IssuedAfter(referrals')
        /\ UNCHANGED nextRef

\* WHERE clause of expireOldReferrals' UPDATE, without the status
ExpireWhere_AnyStatus(r, daysOld, t) ==
    TextLess(r.created_at, SqliteDatetime(t - daysOld * DayLen))

\* WHERE clause of expireOldReferrals' UPDATE
ExpireWhere(r, daysOld, t) ==
    /\ r.status = "pending"
    /\ TextLess(r.created_at, SqliteDatetime(t - daysOld * DayLen))

\* expireOldReferrals(daysOld = 30)
expireOldReferrals(daysOld) ==
    LET days == IF daysOld = NullNum THEN DefaultDaysOld ELSE daysOld
        hit == { r \in referrals : ExpireWhere(r, days, now) }
    IN  /\ referrals' = (referrals \ hit) \cup
              { [r EXCEPT !.status = "expired"] : r \in hit }
        /\ last' = Call("expireOldReferrals", Cardinality(hit))
        /\ issued' = IssuedAfter(referrals')
        /\ UNCHANGED nextRef

\* countActiveReferrals(appId, referrerId)
countActiveReferrals(appId, referrerId) ==
    Cardinality({ r \in referrals : ExistingWhere(r, appId, referrerId) })

---------------------------------------------------------------------------
(* middleware/apiAuth.ts *)

\* s.startsWith(prefix) and s.substring(n)
StartsWith(s, prefix) ==
    /\ Len(Chars(s)) >= Len(Chars(prefix))
    /\ SubSeq(Chars(s), 1, Len(Chars(prefix))) = Chars(prefix)

Substring(s, n) == SubSeq(Chars(s), n + 1, Len(Chars(s)))

\* The credentials of a request: the X-API-Key header, the Authorization header,
\* req.query.api_key and whether that is a string (it is an array when repeated)
Credentials(xApiKey, authHeader, queryKey, queryIsString) ==
    [ xApiKey |-> xApiKey, authHeader |-> authHeader,
      queryKey |-> queryKey, queryIsString |-> queryIsString ]

NoCredentials == Credentials(NullStr, NullStr, NullStr, FALSE)

\* requireApiKey that accepts every Bearer header
requireApiKey_AnyBearer(cred) ==
    \/ ~TruthyStr(apiKey)
    \/ cred.xApiKey = apiKey
    \/ StartsWith(cred.authHeader, "Bearer ")
    \/ cred.queryIsString /\ cred.queryKey = apiKey

\* requireApiKey(req, res, next): TRUE when it calls next()
requireApiKey(cred) ==
    \/ ~TruthyStr(apiKey)
    \/ cred.xApiKey = apiKey
    \/ /\ StartsWith(cred.authHeader, "Bearer ")
       /\ Substring(cred.authHeader, 7) = Chars(apiKey)
    \/ cred.queryIsString /\ cred.queryKey = apiKey

---------------------------------------------------------------------------
(* The routes of routes/api and routes/public, each request one atomic step *)

\* req.app_config: the app's id, referral_enabled and referral_max_per_user
AppConfig(id, referralEnabled, referralMaxPerUser) ==
    [ id |-> id, referral_enabled |-> referralEnabled,
      referral_max_per_user |-> referralMaxPerUser ]

\* No app resolved for the request's host
NoApp == AppConfig(NullStr, 0, NullNum)

\* The request ends before any service call
Reject(route, status) ==
    /\ resp' = Response(route, status, NullStr, NullStr, NullStr)
    /\ last' = Call("none", 0)
    /\ UNCHANGED <<referrals, nextRef, issued>>

\* POST /api/referral/create
PostReferralCreate(cred, app, user_id, code) ==
    /\ IF ~requireApiKey(cred)
       THEN Reject("create", 401)
       ELSE IF app = NoApp
       THEN Reject("create", 404)
       ELSE IF ~TruthyNum(app.referral_enabled)
       THEN Reject("create", 403)
       ELSE IF ~TruthyStr(user_id)
       THEN Reject("create", 400)
       ELSE IF /\ TruthyNum(app.referral_max_per_user)
               /\ countActiveReferrals(app.id, user_id) >= app.referral_max_per_user
       THEN Reject("create", 400)
       ELSE /\ createReferral(app.id, user_id, code)
            /\ resp' = IF last'.ret = Threw
                       THEN Response("create", 500, NullStr, NullStr, NullStr)
                       ELSE Response("create", 200, NullStr, NullStr,
                               (CHOOSE r \in referrals' : r.id = last'.ret).referral_code)
    /\ UNCHANGED <<links, now, nextId, claims, concVars, scoreVars, apiKey, envVars>>

\* POST /api/referral/complete
PostReferralComplete(cred, app, referral_code, referred_user_id, milestone) ==
    /\ IF ~requireApiKey(cred)
       THEN Reject("complete", 401)
       ELSE IF app = NoApp
       THEN Reject("complete", 404)
       ELSE IF ~TruthyStr(referral_code) \/ ~TruthyStr(referred_user_id)
       THEN Reject("complete", 400)
       ELSE /\ completeReferral(referral_code, referred_user_id,
                                IF milestone = NullStr THEN "completed" ELSE milestone)
            /\ resp' = IF last'.ret = NoLink
                       THEN Response("complete", 404, NullStr, NullStr, NullStr)
                       ELSE Response("complete", 200, NullStr,
                               (CHOOSE r \in referrals' : r.id = last'.ret).referrer_id,
                               referral_code)
    /\ UNCHANGED <<links, now, nextId, claims, concVars, scoreVars, apiKey, envVars>>

\* POST /api/referral/milestone
PostReferralMilestone(cred, app, referral_code, milestone) ==
    /\ IF ~requireApiKey(cred)
       THEN Reject("milestone", 401)
       ELSE IF app = NoApp
       THEN Reject("milestone", 404)
       ELSE IF ~TruthyStr(referral_code) \/ ~TruthyStr(milestone)
       THEN Reject("milestone", 400)
       ELSE /\ updateMilestone(referral_code, milestone)
            /\ resp' = IF last'.ret = NoLink
                       THEN Response("milestone", 404, NullStr, NullStr, NullStr)
                       ELSE IF (CHOOSE r \in referrals' : r.id = last'.ret).app_id # app.id
                       THEN Response("milestone", 404, NullStr, NullStr, NullStr)
                       ELSE Response("milestone", 200, NullStr, NullStr, referral_code)
    /\ UNCHANGED <<links, now, nextId, claims, concVars, scoreVars, apiKey, envVars>>

\* GET /ref/:code, the referral landing page; nanoid(16) returns token
GetRef(app, code, fingerprint, ip, token) ==
    /\ IF app = NoApp
       THEN Reject("ref", 404) /\ UNCHANGED <<links, nextId, now, claims, concVars, scoreVars>>
       ELSE IF \A r \in getReferralByCode(code) : r.app_id # app.id
       THEN Reject("ref", 404) /\ UNCHANGED <<links, nextId, now, claims, concVars, scoreVars>>
       ELSE /\ storeDeferredLink(app.id, fingerprint, ReferralPath(code), ip, token)
            /\ resp' = Response("ref", IF last'.ret = NoLink THEN 500 ELSE 200,
                                NullStr, NullStr, NullStr)
            /\ UNCHANGED <<referrals, nextRef, issued>>
    /\ UNCHANGED <<apiKey, envVars>>

\* GET /:prefix/:token, the landing page of a route: stores `/${prefix}/${token}`
GetPrefixToken(app, path, fingerprint, ip, token) ==
    /\ app # NoApp
    /\ storeDeferredLink(app.id, fingerprint, path, ip, token)
    /\ resp' = Response("link", IF last'.ret = NoLink THEN 500 ELSE 200,
                        NullStr, NullStr, NullStr)
    /\ UNCHANGED <<referrals, nextRef, issued, apiKey, envVars>>

\* GET /api/deferred/claim after claimByToken or claimByFingerprint returned:
\* the 404, or the referral detection and the response
ClaimResponse ==
    IF last'.ret = NoLink
    THEN /\ resp' = Response("claim", 404, NullStr, NullStr, NullStr)
         /\ UNCHANGED referrals
    ELSE LET path == LinkById(last'.ret).deep_link_path
             referralCode == ReferralMatch(path)
         IN  IF referralCode # NullStr
             THEN /\ referrals' = MilestoneUpdated(referrals, referralCode, "installed")
                  /\ resp' = Response("claim", 200, path,
                                      getReferrerIdByCode(referralCode), referralCode)
             ELSE /\ resp' = Response("claim", 200, path, NullStr, NullStr)
                  /\ UNCHANGED referrals

\* GET /api/deferred/claim?token=&fingerprint= ; generated is the fingerprint the
\* server computes from the request when none is provided
GetDeferredClaim(app, token, providedFingerprint, generated) ==
    /\ IF app = NoApp
       THEN Reject("claim", 404) /\ UNCHANGED <<links, nextId, now, claims, concVars, scoreVars>>
       ELSE /\ IF TruthyStr(token)
               THEN claimByToken(token)
               ELSE claimByFingerprint(
                       IF TruthyStr(providedFingerprint) THEN providedFingerprint
                       ELSE generated, app.id)
            /\ ClaimResponse
            /\ UNCHANGED <<nextRef, issued>>
    /\ UNCHANGED <<apiKey, envVars>>

---------------------------------------------------------------------------
(* Specification: any sequence of requests to the referral and claim routes *)

\* daysOld of expireOldReferrals: left out (default 30), or 0
DaysInputs == {NullNum, 0}

\* nanoid(16) of the landing pages: a token no row has
FreshToken == IF nextId = 1 THEN "t1" ELSE "t2"

\* The codes of the referrals in the histories with landing pages: one the
\* pattern of the claim route accepts, one with a character it does not
LandingCodes == {"AB1", "X_7"}

\* The apps of the requests to the claim route and the landing pages
ClaimApps == { AppConfig("A", 1, NullNum), AppConfig("B", 1, 1) }

NextApi ==
    \/ \E code \in LandingCodes :
          /\ nextRef <= MaxApiRefs
          /\ PostReferralCreate(NoCredentials, AppConfig("A", 1, NullNum), "u1", code)
    \/ \E code \in LandingCodes :
          PostReferralComplete(NoCredentials, AppConfig("A", 1, NullNum), code, "u2", NullStr)
    \/ \E code \in LandingCodes :
          PostReferralMilestone(NoCredentials, AppConfig("A", 1, NullNum), code, "installed")
    \/ \E app \in ClaimApps, code \in LandingCodes \cup {UnknownCode} :
          nextId <= MaxApiLinks /\ GetRef(app, code, "f1", "1.2.2.2", FreshToken)
    \/ /\ nextId <= MaxApiLinks
       /\ GetPrefixToken(AppConfig("A", 1, NullNum), ReferralPath(UnknownCode),
                         "f1", "1.2.2.2", FreshToken)
    \/ \E app \in ClaimApps \cup {NoApp}, token \in Tokens \cup {""} :
          GetDeferredClaim(app, token, "", "f1")
    \/ \E daysOld \in DaysInputs :
          /\ expireOldReferrals(daysOld)
          /\ resp' = NoResponse
          /\ UNCHANGED <<links, now, nextId, claims, concVars, scoreVars, apiKey, envVars>>
    \/ /\ now < MaxApiTime
       /\ Tick
       /\ resp' = NoResponse
       /\ UNCHANGED <<referrals, nextRef, issued, apiKey, envVars>>

SpecApi == Init /\ [][NextApi]_vars

---------------------------------------------------------------------------
(* Specification: any sequence of requests to the referral routes *)

\* App A as configured without a cap, and with referral_max_per_user = 1
CapApps == { AppConfig("A", 1, NullNum), AppConfig("A", 1, 1) }

\* Bodies of POST /api/referral/complete: <<referred_user_id, milestone>>, the
\* milestone left out (default 'completed') or given
CompleteBodies == { <<"u2", NullStr>>, <<"u3", "purchased">> }

NextReferral ==
    \/ \E app \in CapApps, code \in NanoidCodes :
          PostReferralCreate(NoCredentials, app, "u1", code)
    \/ \E code \in AllCodes, body \in CompleteBodies :
          PostReferralComplete(NoCredentials, AppConfig("A", 1, NullNum), code, body[1],
                               body[2])
    \/ \E code \in AllCodes :
          PostReferralMilestone(NoCredentials, AppConfig("A", 1, NullNum), code, "purchased")
    \/ \E daysOld \in DaysInputs :
          /\ expireOldReferrals(daysOld)
          /\ resp' = NoResponse
          /\ UNCHANGED <<links, now, nextId, claims, concVars, scoreVars, apiKey, envVars>>
    \/ /\ now < MaxApiTime
       /\ Tick
       /\ resp' = NoResponse
       /\ UNCHANGED <<referrals, nextRef, issued, apiKey, envVars>>

SpecReferral == Init /\ [][NextReferral]_vars

---------------------------------------------------------------------------
(* Specification: requests to the referral routes of a server started with or
   without API_KEY, with every kind of credentials *)

\* config.apiKey: process.env.API_KEY || null
ApiKeys == { NullStr, "k1" }

\* The credentials of the requests: none; X-API-Key right and wrong; Authorization
\* with the right and a wrong Bearer token, a lower-case scheme and another
\* scheme; api_key right, wrong and repeated (an array); a right Bearer token
\* behind a wrong X-API-Key; a right api_key behind two wrong headers
CredInputs ==
    { NoCredentials,
      Credentials("k1", NullStr, NullStr, FALSE),
      Credentials("k2", NullStr, NullStr, FALSE),
      Credentials(NullStr, "Bearer k1", NullStr, FALSE),
      Credentials(NullStr, "Bearer k2", NullStr, FALSE),
      Credentials(NullStr, "bearer k1", NullStr, FALSE),
      Credentials(NullStr, "Basic k1", NullStr, FALSE),
      Credentials(NullStr, NullStr, "k1", TRUE),
      Credentials(NullStr, NullStr, "k2", TRUE),
      Credentials(NullStr, NullStr, "k1", FALSE),
      Credentials("k2", "Bearer k1", NullStr, FALSE),
      Credentials("k2", "Bearer k2", "k1", TRUE) }

\* req.app_config: no app for the host, app A with referrals disabled and enabled
AuthApps == { NoApp, AppConfig("A", 0, NullNum), AppConfig("A", 1, NullNum) }

\* Strings of the request bodies: a field is empty or given
BodyUsers == { "", "u1" }
BodyCodes == { "", "AB1", "X_7" }
BodyMilestones == { "", "purchased" }

\* A POST /api/referral/create with the credentials
CreateRequest(cred) ==
    \E app \in AuthApps, user_id \in BodyUsers, code \in LandingCodes :
        PostReferralCreate(cred, app, user_id, code)

\* A POST /api/referral/complete with the credentials
CompleteRequest(cred) ==
    \E app \in { NoApp, AppConfig("A", 1, NullNum) }, referral_code \in BodyCodes :
        PostReferralComplete(cred, app, referral_code, "u2", NullStr)

\* A POST /api/referral/milestone with the credentials
MilestoneRequest(cred) ==
    \E referral_code \in BodyCodes, milestone \in BodyMilestones :
        PostReferralMilestone(cred, AppConfig("A", 1, NullNum), referral_code, milestone)

InitAuth ==
    /\ InitStore /\ InitConc /\ InitScore
    /\ referrals = {}
    /\ nextRef = 1
    /\ resp = NoResponse
    /\ issued = [p \in Pairs |-> NullStr]
    /\ apiKey \in ApiKeys
    /\ cleanupKey = NullStr
    /\ job = "start"

NextAuth ==
    \/ \E cred \in CredInputs : CreateRequest(cred)
    \/ \E cred \in CredInputs : CompleteRequest(cred)
    \/ \E cred \in CredInputs : MilestoneRequest(cred)

SpecAuth == InitAuth /\ [][NextAuth]_vars

---------------------------------------------------------------------------
(* Properties of the claim route and the referrals *)

\* The step is a request to GET /api/deferred/claim answered with success:true
ClaimSucceeds == resp'.route = "claim" /\ resp'.status = 200

\* C12: when a successfully claimed link has the path '/referral/C' of a referral
\* createReferral minted (and that has not expired), the response carries the
\* referral's referrer_id and referral_code = C, and the referral's milestone is
\* 'installed' afterwards.
C12_ReferralAttribution ==
    [][ClaimSucceeds =>
          \A r \in referrals :
              (/\ LinkById(last'.ret).deep_link_path = ReferralPath(r.referral_code)
               /\ r.status # "expired")
              => /\ resp'.referrer_id = r.referrer_id
                 /\ resp'.referral_code = r.referral_code
                 /\ \E m \in referrals' : m.id = r.id /\ m.milestone = "installed"
      ]_vars

\* The step is a request to GET /api/deferred/claim whose claimByToken or
\* claimByFingerprint returned a link
LinkClaimed == resp'.route = "claim" /\ last'.op \in ClaimOps /\ last'.ret # NoLink

\* C13: when a successfully claimed link has a path /referral/{code} and no
\* referral, or only an expired one, exists for the code, the response is
\* success:true with the path, the link is marked claimed, no referrer_id is given
\* for an unknown code, and no referral row is created or modified.
C13_MissingReferralTolerated ==
    [][LinkClaimed =>
          LET link == LinkById(last'.ret)
          IN  \A c \in AllCodes :
                 (/\ link.deep_link_path = ReferralPath(c)
                  /\ \A r \in getReferralByCode(c) : r.status = "expired")
                 => /\ resp'.status = 200
                    /\ resp'.path = link.deep_link_path
                    /\ \E m \in links' : m.id = link.id /\ m.claimed = 1
                    /\ getReferralByCode(c) = {} => resp'.referrer_id = NullStr
                    /\ referrals' = referrals
      ]_vars

\* The claim of a link of an expired referral has just succeeded: the response
\* names the referrer, and the referral still has the milestone it was created with.
C13_Witness ==
    /\ resp.route = "claim" /\ resp.status = 200
    /\ resp.referrer_id = "u1"
    /\ \E r \in referrals :
          /\ r.referral_code = resp.referral_code
          /\ r.status = "expired" /\ r.milestone = "pending"
    /\ \E l \in links : l.deep_link_path = resp.path /\ l.claimed = 1

\* C14: over any sequence of createReferral, updateMilestone, completeReferral,
\* expireOldReferrals and claim operations, a referral's status changes only
\* pending -> completed or pending -> expired; a completed or expired referral
\* keeps its status for ever, and no referral row disappears.
C14_StatusOneWay ==
    [][\A r \in referrals :
          \E m \in referrals' :
             /\ m.id = r.id
             /\ \/ m.status = r.status
                \/ r.status = "pending" /\ m.status \in {"completed", "expired"}
      ]_vars

\* expireOldReferrals has just run, found nothing to expire and left alone a
\* completed referral that is older than its threshold.
C14_Witness ==
    /\ last.op = "expireOldReferrals" /\ last.ret = 0
    /\ \E r \in referrals :
          /\ r.status = "completed"
          /\ TextLess(r.created_at, SqliteDatetime(now))

---------------------------------------------------------------------------
(* Properties of the referral routes *)

\* The rows of the pair (appId, referrerId)
RowsOf(rows, appId, referrerId) ==
    { r \in rows : r.app_id = appId /\ r.referrer_id = referrerId }

\* The step is a createReferral(appId, "u1") call, and an earlier call for the
\* pair returned a code whose referral has not been completed or expired since
RepeatedCreate(appId, code) ==
    /\ last'.op = "createReferral"
    /\ issued[<<appId, "u1">>] # NullStr
    /\ createReferral(appId, "u1", code)

\* C15 (as stated): the second of two createReferral calls for a pair, with no
\* completion or expiry of the referral in between, returns the same
\* referral_code, inserts nothing and leaves exactly one referral row of the pair.
C15_OneRowPerPair ==
    [][\A appId \in Apps, code \in NanoidCodes :
          RepeatedCreate(appId, code) =>
             /\ last'.ret \in { r.id : r \in referrals' }
             /\ \A r \in referrals' :
                   r.id = last'.ret => r.referral_code = issued[<<appId, "u1">>]
             /\ referrals' = referrals
             /\ Cardinality(RowsOf(referrals', appId, "u1")) = 1
      ]_vars

\* C15 (amended): the second call returns the same referral_code, inserts nothing
\* and leaves exactly one pending referral row of the pair (next to the rows of
\* the pair's earlier referrals, completed or expired).
C15_OnePendingRowPerPair ==
    [][\A appId \in Apps, code \in NanoidCodes :
          RepeatedCreate(appId, code) =>
             /\ last'.ret \in { r.id : r \in referrals' }
             /\ \A r \in referrals' :
                   r.id = last'.ret => r.referral_code = issued[<<appId, "u1">>]
             /\ referrals' = referrals
             /\ Cardinality({ r \in RowsOf(referrals', appId, "u1") :
                                 r.status = "pending" }) = 1
      ]_vars

\* createReferral has just returned a pending referral that was created at an
\* earlier time, for a pair that also has a completed referral.
C15_Witness ==
    /\ last.op = "createReferral"
    /\ \E r \in referrals :
          /\ r.id = last.ret
          /\ r.status = "pending"
          /\ issued[<<r.app_id, r.referrer_id>>] = r.referral_code
          /\ TextLess(r.created_at, SqliteDatetime(now))
          /\ \E o \in RowsOf(referrals, r.app_id, r.referrer_id) : o.status = "completed"

\* C16: for every configuration of the app, a repeated POST /api/referral/create
\* for a user whose referral is still pending is answered with success and the
\* existing referral_code, not with an error.
C16_RepeatedCreateSucceeds ==
    [][\A app \in CapApps, code \in NanoidCodes :
          (/\ resp'.route = "create"
           /\ \E r \in referrals : ExistingWhere(r, app.id, "u1")
           /\ PostReferralCreate(NoCredentials, app, "u1", code))
          => /\ resp'.status = 200
             /\ \E r \in referrals :
                   ExistingWhere(r, app.id, "u1") /\ resp'.referral_code = r.referral_code
      ]_vars

\* The referral row with the code (referral_code is UNIQUE), as a set
WithCode(code) == { r \in referrals : r.referral_code = code }

\* C17: completeReferral on a pending referral sets status = completed,
\* completed_at, referred_user_id and milestone (default 'completed') of that row
\* only; on an unknown, completed or expired referral it returns null and no row
\* changes, so referred_user_id, completed_at and milestone of a completed
\* referral are never overwritten.
C17_CompleteOnlyFromPending ==
    [][\A code \in AllCodes, body \in CompleteBodies :
          (/\ last'.op = "completeReferral"
           /\ PostReferralComplete(NoCredentials, AppConfig("A", 1, NullNum), code,
                                   body[1], body[2]))
          => IF \E r \in WithCode(code) : r.status = "pending"
             THEN /\ \A r \in WithCode(code) :
                        /\ last'.ret = r.id
                        /\ [r EXCEPT !.status = "completed",
                                     !.referred_user_id = body[1],
                                     !.completed_at = SqliteDatetime(now),
                                     !.milestone = IF body[2] = NullStr
                                                   THEN "completed" ELSE body[2]]
                              \in referrals'
                  /\ referrals \ WithCode(code) \subseteq referrals'
                  /\ Cardinality(referrals') = Cardinality(referrals)
                  /\ resp'.status = 200
             ELSE /\ last'.ret = NoLink
                  /\ referrals' = referrals
                  /\ resp'.status = 404
      ]_vars

\* A completion was refused while every referral is completed, one of them by u2
\* with the default milestone and one by u3 with milestone 'purchased'
C17_Witness ==
    /\ last.op = "completeReferral" /\ last.ret = NoLink
    /\ resp.route = "complete" /\ resp.status = 404
    /\ \A r \in referrals : r.status = "completed" /\ r.completed_at # NullTime
    /\ \E r \in referrals : r.referred_user_id = "u2" /\ r.milestone = "completed"
    /\ \E r \in referrals : r.referred_user_id = "u3" /\ r.milestone = "purchased"

\* C18: updateMilestone(code, m) on a referral that is not expired (pending or
\* completed, whatever its milestone) returns the row, sets its milestone to m
\* and changes no other field and no other row; on an unknown code or an expired
\* referral it returns null and no row changes.
C18_MilestoneIndependence ==
    [][\A code \in AllCodes :
          (/\ last'.op = "updateMilestone"
           /\ PostReferralMilestone(NoCredentials, AppConfig("A", 1, NullNum), code,
                                    "purchased"))
          => IF \E r \in WithCode(code) : r.status # "expired"
             THEN /\ \A r \in WithCode(code) :
                        /\ last'.ret = r.id
                        /\ [r EXCEPT !.milestone = "purchased"] \in referrals'
                  /\ referrals \ WithCode(code) \subseteq referrals'
                  /\ Cardinality(referrals') = Cardinality(referrals)
                  /\ resp'.status = 200
             ELSE /\ last'.ret = NoLink
                  /\ referrals' = referrals
                  /\ resp'.status = 404
      ]_vars

\* updateMilestone has just succeeded on a referral that u2 completed with the
\* default milestone, while the other referral is expired and keeps its milestone
C18_Witness ==
    /\ last.op = "updateMilestone" /\ last.ret # NoLink
    /\ \E r \in referrals :
          /\ r.id = last.ret
          /\ r.status = "completed" /\ r.referred_user_id = "u2"
          /\ r.milestone = "purchased"
    /\ \E r \in referrals : r.status = "expired" /\ r.milestone = "pending"

\* C19: once a referral's status is completed or expired, no step (a request to
\* POST /api/referral/milestone, or a claim of a deferred link with the
\* referral's path) changes its milestone.
C19_MilestoneFrozenWhenTerminal ==
    [][\A r \in referrals :
          r.status \in {"completed", "expired"}
          => \A q \in referrals' : q.id = r.id => q.milestone = r.milestone
      ]_vars

---------------------------------------------------------------------------
(* Properties of the API-key gate *)

\* The request presents the key: as the X-API-Key header, as the Bearer token of
\* the Authorization header, or as the api_key query parameter
Presents(cred, key) ==
    \/ cred.xApiKey = key
    \/ cred.authHeader = "Bearer " \o key
    \/ cred.queryIsString /\ cred.queryKey = key

\* The step answers 401 exactly when the gate has to refuse the credentials, and
\* then no referral state changes
Gate(cred) ==
    /\ resp'.status = 401 <=> (apiKey # NullStr /\ ~Presents(cred, apiKey))
    /\ resp'.status = 401 => UNCHANGED <<referrals, nextRef, issued>>

\* C20: with an API key configured, a request to the referral create, complete or
\* milestone endpoint reaches its handler (is answered by it, not with 401) iff
\* its X-API-Key header, its Authorization: Bearer token or its api_key query
\* parameter equals the key; a refused request changes no referral state. With
\* no key configured no request is answered 401. (Every step that is a request
\* with the credentials cred passes Gate(cred).)
C20_ApiKeyGate ==
    [][\A cred \in CredInputs :
          \/ Gate(cred)
          \/ /\ resp'.route = "create" => ~CreateRequest(cred)
             /\ resp'.route = "complete" => ~CompleteRequest(cred)
             /\ resp'.route = "milestone" => ~MilestoneRequest(cred)
      ]_vars

\* With the key k1 configured, a request has just been refused after other
\* requests created a referral, moved its milestone and completed another one
C20_Witness ==
    /\ apiKey = "k1"
    /\ resp.status = 401
    /\ \E r \in referrals : r.status = "completed"
    /\ \E r \in referrals : r.status = "pending" /\ r.milestone = "purchased"

---------------------------------------------------------------------------
(* POST /api/deferred/cleanup, and histories of stores, claims and cleanup
   requests of a server started with or without CLEANUP_KEY *)

\* The route's condition with the test of expectedKey left out
CleanupAuthorized_HeaderOnly(authHeader) == authHeader = cleanupKey

\* !(!expectedKey || authHeader !== expectedKey)
CleanupAuthorized(authHeader) == TruthyStr(cleanupKey) /\ authHeader = cleanupKey

\* POST /api/deferred/cleanup with the header X-Cleanup-Key (NullStr: none)
PostDeferredCleanup(authHeader) ==
    /\ IF ~CleanupAuthorized(authHeader)
       THEN /\ resp' = Response("cleanup", 401, NullStr, NullStr, NullStr)
            /\ last' = Call("none", 0)
            /\ UNCHANGED <<links, now, nextId, claims, concVars, scoreVars>>
       ELSE /\ cleanupDeferredLinks
            /\ resp' = Response("cleanup", 200, NullStr, NullStr, NullStr)
    /\ UNCHANGED <<referrals, nextRef, issued, apiKey, envVars>>

\* process.env.CLEANUP_KEY: not set, empty, set
CleanupKeys == { NullStr, "", "k1" }

\* X-Cleanup-Key: no header, empty, the key, another key
CleanupHeaders == { NullStr, "", "k1", "k2" }

InitCleanup ==
    /\ InitStore /\ InitConc /\ InitScore
    /\ referrals = {}
    /\ nextRef = 1
    /\ resp = NoResponse
    /\ issued = [p \in Pairs |-> NullStr]
    /\ apiKey = NullStr
    /\ cleanupKey \in CleanupKeys
    /\ job = "start"

NextCleanup ==
    \/ \E token \in Tokens :
          /\ storeDeferredLink("A", "f1", "/m/xyz", "1.2.2.2", token)
          /\ resp' = NoResponse
          /\ UNCHANGED <<referrals, nextRef, issued, apiKey, envVars>>
    \/ \E token \in Tokens :
          /\ claimByToken(token)
          /\ resp' = NoResponse
          /\ UNCHANGED <<referrals, nextRef, issued, apiKey, envVars>>
    \/ \E authHeader \in CleanupHeaders : PostDeferredCleanup(authHeader)
    \/ /\ Tick
       /\ resp' = NoResponse
       /\ UNCHANGED <<referrals, nextRef, issued, apiKey, envVars>>

SpecCleanup == InitCleanup /\ [][NextCleanup]_vars

---------------------------------------------------------------------------
(* A sweep between the statements of concurrent claimByToken calls *)

NextSweep ==
    \/ \E token \in Tokens :
          storeDeferredLink("A", "f1", "/m/xyz", "1.2.2.2", token) /\ UNCHANGED refVars
    \/ \E p \in 1..NProcs, token \in Tokens :
          claimByToken_Select(p, token) /\ UNCHANGED refVars
    \/ \E p \in 1..NProcs : claimByToken_Update(p) /\ UNCHANGED refVars
    \/ cleanupDeferredLinks /\ UNCHANGED refVars
    \/ Tick /\ UNCHANGED refVars

SpecSweep == Init /\ [][NextSweep]_vars

\* C22: a sweep deletes exactly the records that are claimed or whose expires_at
\* lies before now; and for any interleaving of a sweep with in-flight claims and
\* stores, a claim that returns a record finds the record still in the store when
\* it marks it (the sweep has not deleted it in between).
C22_SweepSafeUnderInterleaving ==
    [][/\ (last'.op = "cleanup" /\ cleanupDeferredLinks)
             => links \ links' = { l \in links : l.claimed = 1 \/ Expired(l, now) }
       /\ \A p \in 1..NProcs :
             (pc[p] = "selected" /\ claimByToken_Update(p))
             => \E l \in links : l.id = plink[p]
      ]_vars

---------------------------------------------------------------------------
(* Frame of the claim calls, over the sequential histories *)

\* C23: a claim call (claimByToken, claimByFingerprint, claimBySignals) that
\* returns not-found leaves every deferred link and every referral unchanged; a
\* call that returns a record changes that record's claimed flag from 0 to 1 and
\* nothing else: no other field of it and no other record.
C23_ClaimAllOrNothing ==
    [][last'.op \in ClaimOps
       => IF last'.ret = NoLink
          THEN links' = links /\ referrals' = referrals
          ELSE \E l \in links :
                  /\ l.id = last'.ret
                  /\ l.claimed = 0
                  /\ links' = (links \ {l}) \cup {[l EXCEPT !.claimed = 1]}
      ]_vars

\* A claim has just returned one of two records of the same app and ip; the
\* other is still unclaimed
C23_Witness ==
    /\ last.op \in ClaimOps /\ last.ret # NoLink
    /\ \E l, m \in links :
          /\ l.id = last.ret /\ l.claimed = 1
          /\ m.id # l.id /\ m.app_id = l.app_id /\ m.ip = l.ip /\ m.claimed = 0

---------------------------------------------------------------------------
(* Concurrent claimBySignals calls.  The SELECT ... .all() and the UPDATE are two
   SQLite statements; the scoring between them works on the rows in memory. *)

\* claimBySignals, call p: the SELECT, "if (candidates.length === 0) return null"
\* and the loop that picks bestMatch, or the fallback candidates[0]
claimBySignals_Select(p, ip, signals, appId, matchWindowMs, minScore) ==
    /\ pc[p] = "idle"
    /\ LET found == { l \in links :
                        SignalsWhere(l, ip, appId, WindowMinutes(matchWindowMs), now) }
       IN  IF found = {}
           THEN /\ pc' = [pc EXCEPT ![p] = "done"]
                /\ UNCHANGED plink
           ELSE \E candidates \in OrderByCreatedDesc(found) :
                   LET bestMatch == BestMatch(candidates, 1, signals,
                                              MinScoreOf(minScore), NoLink, -1)
                   IN  /\ plink' = [plink EXCEPT ![p] =
                                      IF bestMatch # NoLink THEN bestMatch
                                      ELSE Fallback(candidates)]
                       /\ pc' = [pc EXCEPT ![p] = "selected"]
    /\ UNCHANGED <<storeVars, ptoken, pret, scoreVars>>

\* claimBySignals, call p: the UPDATE of the chosen row and the return
claimBySignals_Update(p) ==
    /\ pc[p] = "selected"
    /\ links' = MarkClaimed(links, plink[p])
    /\ pret' = [pret EXCEPT ![p] = plink[p]]
    /\ pc' = [pc EXCEPT ![p] = "done"]
    /\ UNCHANGED <<now, nextId, last, claims, ptoken, plink, scoreVars>>

\* The concurrent calls: same ip and app, with signals that match the stored
\* ones in one field (fallback) and in two fields (confident match)
SignalRaceInputs ==
    { <<"1.2.2.2", Signals("UTC", NullStr, 409, NullNum), "A", NullNum, NullNum>>,
      <<"1.2.2.2", Signals("UTC", NullStr, NullNum, NullNum), "A", NullNum, NullNum>> }

NextSignalRace ==
    \/ \E token \in Tokens :
          storeDeferredLink("A", "f1", "/m/xyz", "1.2.2.2", token) /\ UNCHANGED refVars
    \/ \E token \in Tokens, signals \in PatchInputs :
          updateDeferredLinkSignals(token, signals) /\ UNCHANGED refVars
    \/ \E p \in 1..NProcs, inp \in SignalRaceInputs :
          claimBySignals_Select(p, inp[1], inp[2], inp[3], inp[4], inp[5])
          /\ UNCHANGED refVars
    \/ \E p \in 1..NProcs : claimBySignals_Update(p) /\ UNCHANGED refVars
    \/ Tick /\ UNCHANGED refVars

SpecSignalRace == Init /\ [][NextSignalRace]_vars

\* C24: when claimBySignals calls for the same ip and app interleave at their
\* statements, no call returns a record that another call has already returned:
\* the call whose winner was consumed in between claims another candidate or
\* returns not-found.
C24_SignalRaceOneWinner ==
    [][\A p \in 1..NProcs :
          (pc[p] = "selected" /\ claimBySignals_Update(p))
          => \A q \in 1..NProcs \ {p} : pret[q] # pret'[p]
      ]_vars

---------------------------------------------------------------------------
(* Uniqueness of the referrer tokens, over the sequential histories *)

\* C25: in every reachable state no two deferred links (claimed or not, of any
\* app) have the same referrer_token; and a storeDeferredLink whose generated
\* token is the token of a record in the store fails (the INSERT throws) and
\* inserts nothing.
C25_TokensUnique ==
    [][/\ \A l, m \in links' : l.referrer_token = m.referrer_token => l = m
       /\ \A inp \in StoreInputs, token \in Tokens :
             (/\ last'.op = "store"
              /\ \E l \in links : l.referrer_token = token
              /\ storeDeferredLink(inp[1], inp[2], inp[3], inp[4], token))
             => /\ last'.ret = NoLink
                /\ links' = links
                /\ nextId' = nextId
      ]_vars

\* A store has just failed on the token of a claimed record of another app
C25_Witness ==
    /\ last.op = "store" /\ last.ret = NoLink
    /\ \E l \in links : l.claimed = 1 /\ l.app_id = "B"
    /\ \A l \in links : l.app_id = "B"

---------------------------------------------------------------------------
(* The legacy claim by fingerprint, over the sequential histories *)

\* The unclaimed, unexpired records with the fingerprint and the app
Eligible(fingerprint, appId) ==
    { l \in links : /\ l.fingerprint = fingerprint /\ l.app_id = appId
                    /\ l.claimed = 0 /\ ~Expired(l, now) }

\* C26: claimByFingerprint(f, appId) returns, among the unclaimed and unexpired
\* records with fingerprint f and app appId, one with the most recent created_at,
\* and not-found when there is none; no record of another app is returned or
\* changed.
C26_FingerprintClaimNewest ==
    [][\A fingerprint \in Fingerprints, appId \in Apps :
          (last'.op = "claimByFingerprint" /\ claimByFingerprint(fingerprint, appId))
          => /\ IF Eligible(fingerprint, appId) = {}
                THEN last'.ret = NoLink
                ELSE \E l \in Eligible(fingerprint, appId) :
                        /\ last'.ret = l.id
                        /\ \A m \in Eligible(fingerprint, appId) :
                              ~TextLess(l.created_at, m.created_at)
             /\ \A l \in links : l.app_id # appId => l \in links'
      ]_vars

---------------------------------------------------------------------------
(* The referral codes in the table *)

\* C27: every referral_code in the table consists only of letters and digits,
\* the characters the pattern of the claim route accepts, and no two referrals
\* have the same referral_code.
C27_CodesAlphanumericUnique ==
    /\ \A r \in referrals :
          \A i \in 1..Len(Chars(r.referral_code)) :
              Chars(r.referral_code)[i] \in AlnumChars
    /\ \A r, q \in referrals : r.referral_code = q.referral_code => r = q

---------------------------------------------------------------------------
(* The cleanup job of index.ts: start() runs startCleanupJob(), whose initial
   cleanup runs before app.listen; afterwards the interval callback runs the
   cleanup at every tick of the timer.  Both catch what cleanupExpiredLinks
   throws.  The database file outlives the process, so the table may hold rows
   when the process starts. *)

\* The clock of these histories runs until every stored row is expired for SQLite
SweepHorizon == MaxSweepStoreTime + TTL + DayLen

\* deferred_links at process start: empty, or a claimed row of an earlier run
LeftoverTables ==
    { {}, { [NewLink(1, "A", "f1", "/m/old", "t1", "1.2.2.2", 0) EXCEPT !.claimed = 1] } }

\* What a step of the job leaves alone
JobFrame == UNCHANGED <<referrals, nextRef, resp, issued, apiKey, cleanupKey>>

\* startCleanupJob: the initial cleanup succeeds
StartSweep ==
    /\ job = "start"
    /\ cleanupDeferredLinks
    /\ job' = "timer"
    /\ JobFrame

\* startCleanupJob: the initial cleanup throws; the catch logs it
StartSweepThrows ==
    /\ job = "start"
    /\ last' = Call("cleanup", Threw)
    /\ job' = "timer"
    /\ UNCHANGED <<links, now, nextId, claims, concVars, scoreVars>>
    /\ JobFrame

\* The setInterval callback: the cleanup succeeds
IntervalSweep ==
    /\ job = "timer"
    /\ cleanupDeferredLinks
    /\ UNCHANGED job
    /\ JobFrame

\* The setInterval callback: the cleanup throws; the catch logs it
IntervalSweepThrows ==
    /\ job = "timer"
    /\ last' = Call("cleanup", Threw)
    /\ UNCHANGED <<links, now, nextId, claims, concVars, scoreVars, job>>
    /\ JobFrame

\* Time passes
SweeperClock ==
    /\ now < SweepHorizon
    /\ now' = now + 1
    /\ last' = Call("tick", 0)
    /\ UNCHANGED <<links, nextId, claims, concVars, scoreVars, job>>
    /\ JobFrame

\* A landing page stores a link; the server listens once the job is started
SweeperStore ==
    /\ job = "timer"
    /\ now <= MaxSweepStoreTime
    /\ \E token \in Tokens : storeDeferredLink("A", "f1", "/m/xyz", "1.2.2.2", token)
    /\ UNCHANGED job
    /\ JobFrame

\* An app claims by token
SweeperClaim ==
    /\ job = "timer"
    /\ \E token \in Tokens : claimByToken(token)
    /\ UNCHANGED job
    /\ JobFrame

InitSweeper ==
    /\ links \in LeftoverTables
    /\ now = 0
    /\ nextId = Cardinality(links) + 1
    /\ last = Call("init", 0)
    /\ claims = [id \in 1..MaxStores |-> 0]
    /\ InitConc /\ InitScore /\ InitRef

NextSweeper ==
    \/ StartSweep
    \/ StartSweepThrows
    \/ IntervalSweep
    \/ IntervalSweepThrows
    \/ SweeperClock
    \/ SweeperStore
    \/ SweeperClaim

SpecSweeper == InitSweeper /\ [][NextSweeper]_vars

\* The process start runs through; the timer keeps firing and the cleanup does
\* not throw forever; time passes
SpecSweeperLive ==
    /\ SpecSweeper
    /\ WF_vars(StartSweep \/ StartSweepThrows)
    /\ WF_vars(IntervalSweep)
    /\ WF_vars(SweeperClock)

\* Row id is in the table, and claimed or past its expires_at
Reclaimable(id) ==
    \E l \in links : l.id = id /\ (l.claimed = 1 \/ Expired(l, now))

\* C28: the job runs its cleanup once at process start and then on every timer
\* tick, a cleanup that throws does not stop the later ones, and (the timer
\* firing and time passing) every deferred link that is claimed or past its
\* expires_at is eventually deleted from the table.
C28_EventualReclamation ==
    /\ (job = "start") ~> (job = "timer" /\ last.op = "cleanup")
    /\ [][job = "timer" => job' = "timer"]_vars
    /\ \A id \in 1..MaxStores :
          Reclaimable(id) ~> (\A l \in links : l.id # id)

\* A cleanup has failed with a claimed record and a record past its expires_at
\* in the table
C28_Witness ==
    /\ job = "timer"
    /\ last.op = "cleanup" /\ last.ret = Threw
    /\ \E l \in links : l.claimed = 1
    /\ \E l \in links : l.claimed = 0 /\ Expired(l, now)

---------------------------------------------------------------------------
(* App isolation of the claim route *)

\* Row l of the table is neither returned nor changed by the step
Untouched(l) == l \in links' /\ last'.ret # l.id

\* C29 as stated: a claim request resolved to an app, by token or by
\* fingerprint, neither returns nor marks claimed a deferred link of another app.
C29_ClaimsAppIsolated ==
    [][\A app \in ClaimApps, token \in Tokens \cup {""} :
          (resp'.route = "claim" /\ GetDeferredClaim(app, token, "", "f1"))
          => \A l \in links : l.app_id # app.id => Untouched(l)
      ]_vars

\* C29, amended: a claim request without a token (the fingerprint path) neither
\* returns nor marks claimed a deferred link of another app; a claim request
\* with a token neither returns nor marks a link with another token, and is not
\* scoped to the app.
C29_FingerprintClaimsAppIsolated ==
    [][\A app \in ClaimApps, token \in Tokens \cup {""} :
          (resp'.route = "claim" /\ GetDeferredClaim(app, token, "", "f1"))
          => IF TruthyStr(token)
             THEN \A l \in links : l.referrer_token # token => Untouched(l)
             ELSE \A l \in links : l.app_id # app.id => Untouched(l)
      ]_vars

\* A claim by fingerprint has just been answered not-found although an
\* unclaimed, unexpired link with that fingerprint is in the store: the link is
\* app A's and the request was resolved to app B
C29_Witness ==
    /\ resp.route = "claim" /\ resp.status = 404
    /\ last.op = "claimByFingerprint" /\ last.ret = NoLink
    /\ \E l \in links : FingerprintWhere(l, "f1", "A", now)

---------------------------------------------------------------------------
(* Requests to the referral routes of two apps *)

\* req.app_config of the two domains
TenantApps == { AppConfig("A", 1, NullNum), AppConfig("B", 1, NullNum) }

NextTenant ==
    \/ \E app \in TenantApps, code \in LandingCodes :
          PostReferralCreate(NoCredentials, app, "u1", code)
    \/ \E app \in TenantApps, code \in LandingCodes :
          PostReferralComplete(NoCredentials, app, code, "u2", NullStr)
    \/ \E app \in TenantApps, code \in LandingCodes :
          PostReferralMilestone(NoCredentials, app, code, "purchased")

SpecTenant == Init /\ [][NextTenant]_vars

\* C30: a POST /api/referral/milestone or POST /api/referral/complete request
\* resolved to an app changes no referral of another app, and a request that is
\* answered 404 changes no referral at all.
C30_ReferralMutationsAppIsolated ==
    [][\A app \in TenantApps, code \in LandingCodes :
          (\/ /\ resp'.route = "milestone"
              /\ PostReferralMilestone(NoCredentials, app, code, "purchased")
           \/ /\ resp'.route = "complete"
              /\ PostReferralComplete(NoCredentials, app, code, "u2", NullStr))
          => /\ \A r \in referrals : r.app_id # app.id => r \in referrals'
             /\ resp'.status = 404 => referrals' = referrals
      ]_vars

====
